---- MODULE Spec2Model ----
(***************************************************************************)
(* churn-plus: the analysis engine.                                        *)
(*                                                                         *)
(*   - FindingsAggregator (internal/engine/prompts.go, findings section):  *)
(*     Add / AddMultiple with hash-based de-duplication.                   *)
(*   - PipelineOrchestrator (engine orchestrator and types): Execute,      *)
(*     executePass, runPassAnalysis, the pass statuses and the buffered    *)
(*     event channel.                                                      *)
(*                                                                         *)
(* Strings are TLA+ strings, time.Now() is abstracted to "the field has    *)
(* been set", a *Pass is its index in pipeline.Passes.                     *)
(***************************************************************************)
EXTENDS Integers, Sequences, FiniteSets, TLC

VARIABLES
    aggFindings,   \* FindingsAggregator.findings
    seen,          \* FindingsAggregator.seen: the set of hashes mapped to true
    added,         \* history: every finding handed to Add, in call order
    passes,        \* Pipeline.Passes
    files,         \* the files argument of Execute
    findings,      \* Pipeline.Findings
    events,        \* the buffer of the channel po.events
    closed,        \* whether po.events has been closed
    emitted,       \* history: every event sent on po.events, in send order
    pc,            \* where the Execute goroutine stands
    pi,            \* index of the pass of Execute's range loop
    fi,            \* index of the file of runPassAnalysis's range loop
    local,         \* runPassAnalysis's local findings slice
    aj,            \* index of executePass's range loop over the returned findings
    ret,           \* what Execute returned: "none" (not yet), "nil", "error"
    endTime,       \* whether Pipeline.EndTime has been set
    calls,         \* how many times Execute has been invoked
    outcomes,      \* history: per analysed file, what the build and the request gave
    lastOp,        \* the last operation on the aggregator: "new", "add", "sort"
    preSort,       \* FindingsAggregator.findings as the last Sort call found it
    reportIn,      \* the arguments of the last GenerateReport call
    report,        \* the *AnalysisReport the last GenerateReport call returned
    parseIn,       \* the arguments of the last ParseFindingsFromResponse call
    parseOut,      \* the findings that call returned
    cfg,           \* the config.Config the Factory built the orchestrator from
    selected,      \* MenuModel.selected
    state,         \* AppModel.state
    msgs,          \* the MenuSelectionMsg the returned commands will deliver
    quit,          \* whether tea.Quit was returned
    keys,          \* the keys pressed in the main menu, in order
    received,      \* the events the consumer took from the channel, in order
    rm,            \* RootModel: mode, pipelineStarted and its MenuModel
    rt,            \* the Bubble Tea program of RootModel: the commands and
                   \* messages under way, the goroutines started, the keys
    msm,           \* ModelSelectModel
    mst            \* around ModelSelectModel: the loadModels commands under
                   \* way, config.Project.Model, the keys pressed

aggVars == <<aggFindings, seen, added>>
orchVars == <<passes, files, findings, events, closed, emitted, pc, pi, fi,
              local, aj, ret, endTime, calls, outcomes>>
sortVars == <<lastOp, preSort>>
reportVars == <<reportIn, report>>
parseVars == <<parseIn, parseOut>>
menuVars == <<selected, state, msgs, quit, keys>>
rootVars == <<rm, rt>>
selectVars == <<msm, mst>>
auxVars ==
    <<sortVars, reportVars, parseVars, cfg, menuVars, received, rootVars,
      selectVars>>
vars == <<aggFindings, seen, added, passes, files, findings, events, closed,
          emitted, pc, pi, fi, local, aj, ret, endTime, calls, outcomes,
          lastOp, preSort, reportIn, report, parseIn, parseOut, cfg,
          selected, state, msgs, quit, keys, received, rm, rt, msm, mst>>

-----------------------------------------------------------------------------
(* Bounds of the model *)

MaxAdds == 3
\* The most provider requests one run may need: passes times files.
MaxRequests == 4

\* The most pieces of a text the parser is called with.
MaxTextLen == 5

\* The most passes of a configured pipeline.
MaxConfigPasses == 3

\* The most keys pressed in a menu.
MaxKeys == 5

-----------------------------------------------------------------------------
(* Severity *)

SeverityLow == "low"
SeverityMedium == "medium"
SeverityHigh == "high"
SeverityCritical == "critical"
Severities == {SeverityLow, SeverityMedium, SeverityHigh, SeverityCritical}

-----------------------------------------------------------------------------
(* FindingsAggregator *)

Finding(file, ls, le, sev, kind, msg, pass, code) ==
    [file |-> file, lineStart |-> ls, lineEnd |-> le, severity |-> sev,
     kind |-> kind, message |-> msg, pass |-> pass, code |-> code]

\* The five values the de-duplication is specified over.
Key(f) == <<f.file, f.lineStart, f.lineEnd, f.kind, f.message>>

\* fmt.Sprintf("%s:%d:%d:%s:%s", ...). sha256 and the %x formatting are
\* taken as injective on it, so the formatted text stands for the hash.
hashFinding(f) ==
    f.file \o ":" \o ToString(f.lineStart) \o ":" \o ToString(f.lineEnd)
           \o ":" \o f.kind \o ":" \o f.message

\* A faulty Add: a finding whose hash was seen replaces the stored one.
AddKeepLast(fs, sn, f) ==
    LET h == hashFinding(f) IN
    IF h \in sn
    THEN [findings |-> [i \in 1..Len(fs) |->
                           IF hashFinding(fs[i]) = h THEN f ELSE fs[i]],
          seen |-> sn]
    ELSE [findings |-> Append(fs, f), seen |-> sn \cup {h}]

\* FindingsAggregator.Add on the aggregator state (fs, sn).
AddTo(fs, sn, f) ==
    LET h == hashFinding(f) IN
    IF h \in sn
    THEN [findings |-> fs, seen |-> sn]
    ELSE [findings |-> Append(fs, f), seen |-> sn \cup {h}]

RECURSIVE AddMultipleTo(_, _, _)
\* FindingsAggregator.AddMultiple: Add for each element, in order.
AddMultipleTo(fs, sn, list) ==
    IF list = <<>> THEN [findings |-> fs, seen |-> sn]
    ELSE LET s == AddTo(fs, sn, Head(list))
         IN AddMultipleTo(s.findings, s.seen, Tail(list))

\* The findings the aggregator is driven with: equal five-tuples that
\* differ in severity, pass and code, distinct tuples with one and the same
\* (severity, file, lineStart), and strings that contain the separator of
\* the hash format.
AggInputs ==
    { Finding("a.go", 1, 2, SeverityHigh, "k", "m", "lint", ""),
      Finding("a.go", 1, 2, SeverityLow, "k", "m", "refactor", "fix"),
      Finding("a.go", 3, 4, SeverityHigh, "k", "m", "lint", ""),
      Finding("a.go", 1, 9, SeverityHigh, "k", "m", "lint", ""),
      Finding("b.go", 1, 2, SeverityCritical, "k", "m", "lint", ""),
      Finding("a.go", 1, 2, SeverityMedium, "k:x", "m", "lint", ""),
      Finding("a.go", 1, 2, SeverityMedium, "k", "x:m", "summary", "") }

AggBatches ==
    {<<a, b>> : a \in AggInputs, b \in AggInputs}

\* NewFindingsAggregator
AggInit ==
    /\ aggFindings = <<>>
    /\ seen = {}
    /\ added = <<>>

Add(f) ==
    /\ Len(added) < MaxAdds
    /\ LET s == AddTo(aggFindings, seen, f) IN
         /\ aggFindings' = s.findings
         /\ seen' = s.seen
    /\ added' = Append(added, f)
    /\ lastOp' = "add"
    /\ UNCHANGED <<orchVars, preSort, reportVars, parseVars, cfg, menuVars,
                   received, rootVars, selectVars>>

AddMultiple(list) ==
    /\ Len(added) + Len(list) <= MaxAdds
    /\ LET s == AddMultipleTo(aggFindings, seen, list) IN
         /\ aggFindings' = s.findings
         /\ seen' = s.seen
    /\ added' = added \o list
    /\ lastOp' = "add"
    /\ UNCHANGED <<orchVars, preSort, reportVars, parseVars, cfg, menuVars,
                   received, rootVars, selectVars>>

\* Go's < on the strings that occur as File: byte-wise, which on the
\* paths of FilePaths is their order in this sequence.
FilePaths == <<"a.go", "b.go", "c.go", "d.go", "e.go", "f.go">>
StrIndex(s) == CHOOSE i \in 1..Len(FilePaths) : FilePaths[i] = s
StrLess(a, b) == StrIndex(a) < StrIndex(b)

\* A faulty order map: low first.
severityOrderReversed(sev) ==
    CASE sev = SeverityCritical -> 3
      [] sev = SeverityHigh -> 2
      [] sev = SeverityMedium -> 1
      [] sev = SeverityLow -> 0
      [] OTHER -> 0

\* The severityOrder map of Sort; a missing key reads as 0.
severityOrder(sev) ==
    CASE sev = SeverityCritical -> 0
      [] sev = SeverityHigh -> 1
      [] sev = SeverityMedium -> 2
      [] sev = SeverityLow -> 3
      [] OTHER -> 0

\* The less function Sort hands to sort.Slice.
SortLess(f, g) ==
    IF severityOrder(f.severity) # severityOrder(g.severity)
    THEN severityOrder(f.severity) < severityOrder(g.severity)
    ELSE IF f.file # g.file
    THEN StrLess(f.file, g.file)
    ELSE f.lineStart < g.lineStart

\* The bijections of 1..n.
Perms(n) ==
    {p \in [1..n -> 1..n] : \A i, j \in 1..n : i # j => p[i] # p[j]}

\* What sort.Slice may leave in the slice: a rearrangement of it in which
\* no element is less than one before it.  sort.Slice is documented as not
\* stable, so elements that are not less than one another may come out in
\* any order.
SortSliceResults(fs) ==
    { [i \in 1..Len(fs) |-> fs[p[i]]] : p \in
        { q \in Perms(Len(fs)) :
            \A i, j \in 1..Len(fs) : i < j => ~SortLess(fs[q[j]], fs[q[i]]) } }

\* FindingsAggregator.Sort
Sort ==
    /\ \E sorted \in SortSliceResults(aggFindings) : aggFindings' = sorted
    /\ preSort' = aggFindings
    /\ lastOp' = "sort"
    /\ UNCHANGED <<seen, added>>
    /\ UNCHANGED <<orchVars, reportVars, parseVars, cfg, menuVars, received, rootVars, selectVars>>

\* FindingsAggregator.Count
Count(fs) == Len(fs)

\* A faulty count: a map made empty, with a key per severity that occurs.
CountBySeverityPresent(fs) ==
    [sev \in {fs[i].severity : i \in 1..Len(fs)} |->
        Cardinality({i \in 1..Len(fs) : fs[i].severity = sev})]

\* FindingsAggregator.CountBySeverity: the map starts with the four
\* severities at 0 and counts[f.Severity]++ for every kept finding.
CountBySeverity(fs) ==
    [sev \in Severities \cup {fs[i].severity : i \in 1..Len(fs)} |->
        Cardinality({i \in 1..Len(fs) : fs[i].severity = sev})]

\* A faulty count: every kind that occurs counts once.
CountByKindOnce(fs) ==
    [kind \in {fs[i].kind : i \in 1..Len(fs)} |-> 1]

\* FindingsAggregator.CountByKind: the map starts empty.
CountByKind(fs) ==
    [kind \in {fs[i].kind : i \in 1..Len(fs)} |->
        Cardinality({i \in 1..Len(fs) : fs[i].kind = kind})]

\* The timestamps GenerateReport is called with, in seconds; the
\* differences stay far inside the range of a time.Duration.
Times == {0, 5, 60}

\* endTime.Sub(startTime).Seconds()
DurationSeconds(startT, endT) == endT - startT

\* ProjectContext.FileCount of the context handed to GenerateReport.
CtxFileCount == 3

\* GenerateReport: a new aggregator takes the findings (AddMultiple) and
\* sorts them (Sort); the report holds its findings and its counts.  The
\* aggregator variables show this aggregator.
GenerateReport(input, startT, endT) ==
    LET s == AddMultipleTo(<<>>, {}, input) IN
    /\ Len(input) <= MaxAdds
    /\ \E sorted \in SortSliceResults(s.findings) :
          /\ aggFindings' = sorted
          /\ report' =
                [generated |-> TRUE,
                 version |-> "0.1.0",
                 findings |-> sorted,
                 summary |->
                    [filesAnalyzed |-> CtxFileCount,
                     findingCount |-> Count(sorted),
                     bySeverity |-> CountBySeverity(sorted),
                     byKind |-> CountByKind(sorted),
                     durationSeconds |->
                         DurationSeconds(startT, endT)],
                 pipeline |-> passes]
    /\ seen' = s.seen
    /\ added' = input
    /\ preSort' = s.findings
    /\ lastOp' = "sort"
    /\ reportIn' = [called |-> TRUE, findings |-> input,
                    startTime |-> startT, endTime |-> endT]
    /\ UNCHANGED <<orchVars, parseVars, cfg, menuVars, received, rootVars, selectVars>>

-----------------------------------------------------------------------------
(* Pipeline types *)

PassPending == "pending"
PassRunning == "running"
PassCompleted == "completed"
PassFailed == "failed"

EventPassStarted == "pass_started"
EventPassProgress == "pass_progress"
EventPassCompleted == "pass_completed"
EventPassFailed == "pass_failed"
EventFindingAdded == "finding_added"

\* NewPipelineOrchestrator: no passes, no findings, an open empty channel.
OrchInit ==
    /\ passes = <<>>
    /\ files = <<>>
    /\ findings = <<>>
    /\ events = <<>>
    /\ closed = FALSE
    /\ emitted = <<>>
    /\ pc = "idle"
    /\ pi = 0
    /\ fi = 0
    /\ local = <<>>
    /\ aj = 0
    /\ ret = "none"
    /\ endTime = FALSE
    /\ calls = 0
    /\ outcomes = <<>>

-----------------------------------------------------------------------------
(* The inputs of a run *)

\* The passes are added in this order (Factory.CreateDefaultPipeline's
\* default passes, then more); Pass.Name is unique within a pipeline.
PassNameSeq ==
    <<"lint", "refactor", "summary", "local-refinement", "security", "docs">>

\* The scanned files; Execute is given a prefix of this list.
FilePathSeq == FilePaths

\* One element of the decoded JSON array of a response.
Raw(ls, le, sev, kind, msg, code) ==
    [lineStart |-> ls, lineEnd |-> le, severity |-> sev, kind |-> kind,
     message |-> msg, code |-> code]

\* The fields of an element that names none of them.
ZeroRaw == Raw(0, 0, "", "", "", "")

\* A response text, as the sequence of the pieces the parser tells apart:
\* the fence that opens a json block, the bare fence, the brackets, the
\* comma, white space, a word of prose, and a JSON object with its fields.
Tok(t) == [t |-> t, raw |-> ZeroRaw]
FenceJSON == Tok("fence json")
Fence == Tok("fence")
LBracket == Tok("[")
RBracket == Tok("]")
Comma == Tok(",")
Space == Tok(" ")
Prose == Tok("Here")
Obj(raw) == [t |-> "{}", raw |-> raw]

\* What json.Unmarshal makes of the extracted text: an error, or the
\* elements of the array.
NoJSON == [hasArray |-> FALSE, elems |-> <<>>]
JSONArray(elems) == [hasArray |-> TRUE, elems |-> elems]

\* What the provider answers.
Responses ==
    { <<Prose>>,
      <<LBracket, Obj(Raw(1, 2, "HIGH", "unused-import", "m1", "")),
        RBracket>>,
      <<FenceJSON, LBracket,
        Obj(Raw(1, 2, "HIGH", "unused-import", "m1", "")), Comma,
        Obj(Raw(5, 5, "urgent", "security", "m2", "fix")), RBracket,
        Fence>> }

\* strings.ToLower on the severity strings that occur.
ToLower(s) ==
    CASE s = "HIGH" -> "high"
      [] s = "High" -> "high"
      [] s = "LOW" -> "low"
      [] s = "Critical" -> "critical"
      [] s = "CRITICAL" -> "critical"
      [] s = "Medium" -> "medium"
      [] s = "MeDiUm" -> "medium"
      [] s = "URGENT" -> "urgent"
      [] OTHER -> s

\* A faulty severity switch: the string is compared as it is written.
ParseSeverityExact(s) ==
    IF s \in Severities THEN s ELSE SeverityMedium

\* The severity switch of ParseFindingsFromResponse.
ParseSeverity(s) ==
    LET l == ToLower(s) IN
    IF l \in Severities THEN l ELSE SeverityMedium

\* strings.TrimSpace
TrimSpace(text) ==
    LET ink == {i \in 1..Len(text) : text[i] # Space} IN
    IF ink = {} THEN <<>>
    ELSE SubSeq(text, CHOOSE i \in ink : \A j \in ink : i <= j,
                      CHOOSE i \in ink : \A j \in ink : j <= i)

\* Whether the piece starts with three backquotes: both fences do.
HasFence(tok) == tok = Fence \/ tok = FenceJSON

\* extractJSON: the text between the first json fence and the next fence
\* when both are there, else the text from the first "[" to the last "]"
\* when the last "]" is after the first "[", else the empty string.
extractJSON(text) ==
    LET opening == {i \in 1..Len(text) : text[i] = FenceJSON}
        start == CHOOSE i \in opening : \A j \in opening : i <= j
        closing == IF opening = {} THEN {}
                   ELSE {i \in (start + 1)..Len(text) : HasFence(text[i])}
        end == CHOOSE i \in closing : \A j \in closing : i <= j
        lefts == {i \in 1..Len(text) : text[i] = LBracket}
        rights == {i \in 1..Len(text) : text[i] = RBracket}
        first == CHOOSE i \in lefts : \A j \in lefts : i <= j
        last == CHOOSE i \in rights : \A j \in rights : j <= i
    IN IF closing # {}
       THEN TrimSpace(SubSeq(text, start + 1, end - 1))
       ELSE IF lefts # {} /\ rights # {} /\ last > first
       THEN TrimSpace(SubSeq(text, first, last))
       ELSE <<>>

\* A faulty decoder: it yields the objects read before the error.
UnmarshalPartial(jsonStr) ==
    LET IsInk(tok) == tok # Space
        s == SelectSeq(jsonStr, IsInk)
        objs == {n \in 0..Len(s) :
                    /\ 2 * n <= Len(s)
                    /\ n >= 1 => s[1] = LBracket
                    /\ \A k \in 1..n : s[2 * k].t = "{}"
                    /\ \A k \in 1..(n - 1) : s[2 * k + 1] = Comma}
        n == CHOOSE m \in objs : \A k \in objs : k <= m
    IN IF Len(s) >= 1 /\ s[1] = LBracket
       THEN JSONArray([k \in 1..n |-> s[2 * k].raw])
       ELSE NoJSON

\* json.Unmarshal into the slice of raw findings: the text decodes when it
\* is one array of objects, "[" "]" or "[" object { "," object } "]", with
\* white space anywhere between the pieces; anything else is an error.
Unmarshal(jsonStr) ==
    LET IsInk(tok) == tok # Space
        s == SelectSeq(jsonStr, IsInk)
        ok == /\ Len(s) >= 2
              /\ s[1] = LBracket
              /\ s[Len(s)] = RBracket
              /\ \/ Len(s) = 2
                 \/ /\ Len(s) % 2 = 1
                    /\ \A i \in 2..(Len(s) - 1) :
                          IF i % 2 = 0 THEN s[i].t = "{}" ELSE s[i] = Comma
    IN IF ok
       THEN JSONArray([k \in 1..((Len(s) - 1) \div 2) |-> s[2 * k].raw])
       ELSE NoJSON

\* The conversion loop of ParseFindingsFromResponse: every element yields
\* a Finding with File = filePath and Pass left empty.
ConvertRaw(filePath, elems) ==
    [i \in 1..Len(elems) |->
        LET rf == elems[i] IN
        Finding(filePath, rf.lineStart, rf.lineEnd,
                ParseSeverity(rf.severity), rf.kind, rf.message, "",
                rf.code)]

\* ParseFindingsFromResponse: nothing extracted or a decoding error yields
\* the empty slice.
ParseFindingsFromResponse(filePath, response) ==
    LET jsonStr == extractJSON(response) IN
    IF jsonStr = <<>> THEN <<>>
    ELSE LET rawFindings == Unmarshal(jsonStr) IN
         IF ~rawFindings.hasArray THEN <<>>
         ELSE ConvertRaw(filePath, rawFindings.elems)

\* The severity strings of the elements the parser is given.
SeverityStrings ==
    {"low", "LOW", "medium", "Medium", "MeDiUm", "high", "HIGH", "High",
     "critical", "Critical", "CRITICAL", "urgent", "URGENT", "", "lo"}

\* The pieces the texts are made of.
Tokens ==
    {FenceJSON, Fence, LBracket, RBracket, Comma, Space, Prose,
     Obj(Raw(1, 2, "HIGH", "unused-import", "m1", ""))}

\* One call of ParseFindingsFromResponse.
Parse(filePath, response) ==
    /\ parseIn' = [called |-> TRUE, filePath |-> filePath,
                   response |-> response]
    /\ parseOut' = ParseFindingsFromResponse(filePath, response)
    /\ UNCHANGED <<aggVars, orchVars, sortVars, reportVars, cfg, menuVars,
                   received, rootVars, selectVars>>

-----------------------------------------------------------------------------
(* PipelineOrchestrator *)

\* cap(po.events)
ChanCap == 100

Pass(name) ==
    [name |-> name, status |-> PassPending, error |-> "",
     startSet |-> FALSE, endSet |-> FALSE]

\* A PipelineEvent; pass is the index of *Pass (0: nil), finding and
\* message are "" when the field is not set.
Event(type, p, finding, message, error) ==
    [type |-> type, pass |-> p, finding |-> finding, message |-> message,
     error |-> error]

\* A faulty channel: a send never waits for room.
SendUnbounded(e) ==
    /\ ~closed
    /\ events' = Append(events, e)
    /\ emitted' = Append(emitted, e)

\* po.events <- e, on an open channel with room in its buffer.
Send(e) ==
    /\ ~closed
    /\ Len(events) < ChanCap
    /\ events' = Append(events, e)
    /\ emitted' = Append(emitted, e)

\* AddPass, by the factory, before the run. The Pass is built as the
\* factory builds it: Status pending, no error, no times.
AddPass ==
    /\ pc = "idle"
    /\ Len(passes) < Len(PassNameSeq)
    /\ passes' = Append(passes, Pass(PassNameSeq[Len(passes) + 1]))
    /\ UNCHANGED <<files, findings, events, closed, emitted, pc, pi, fi,
                   local, aj, ret, endTime, calls, outcomes>>
    /\ UNCHANGED <<aggVars, auxVars>>

\* config.PassConfig, config.PipelineConfig and the nil *PipelineConfig.
PassConfig(name, enabled) == [name |-> name, enabled |-> enabled]
PipelineConfig(passConfigs) == [isNil |-> FALSE, passes |-> passConfigs]
NilPipeline == [isNil |-> TRUE, passes |-> <<>>]

\* modelSelection.Provider
Providers == {"anthropic", "openai", "ollama"}

\* The configs a Factory is made with: no pipeline, or a pipeline of up
\* to MaxConfigPasses passes, each enabled or not.
Configs ==
    {[pipeline |-> pl, provider |-> pr] :
        pl \in {NilPipeline} \cup
               UNION {{PipelineConfig([i \in 1..n |->
                                         PassConfig(PassNameSeq[i], en[i])]) :
                          en \in [1..n -> BOOLEAN]} :
                      n \in 0..MaxConfigPasses},
        pr \in Providers}

RECURSIVE ConfiguredPassesAll(_)
\* A faulty loop: every configured pass is added.
ConfiguredPassesAll(passConfigs) ==
    IF passConfigs = <<>> THEN <<>>
    ELSE <<Pass(Head(passConfigs).name)>>
            \o ConfiguredPassesAll(Tail(passConfigs))

RECURSIVE ConfiguredPasses(_)
\* The loop over the configured passes: AddPass for the enabled ones.
ConfiguredPasses(passConfigs) ==
    IF passConfigs = <<>> THEN <<>>
    ELSE IF Head(passConfigs).enabled
    THEN <<Pass(Head(passConfigs).name)>>
            \o ConfiguredPasses(Tail(passConfigs))
    ELSE ConfiguredPasses(Tail(passConfigs))

\* The default passes: local-refinement only with the ollama provider.
DefaultPasses(provider) ==
    <<Pass("lint"), Pass("refactor")>>
        \o (IF provider = "ollama" THEN <<Pass("local-refinement")>>
            ELSE <<>>)
        \o <<Pass("summary")>>

\* Factory.CreateDefaultPipeline: a new orchestrator, with the enabled
\* passes of the configured pipeline when there is one with passes, else
\* with the default passes.
CreateDefaultPipeline(config) ==
    /\ pc = "idle"
    /\ calls = 0
    /\ passes' = IF ~config.pipeline.isNil /\ Len(config.pipeline.passes) > 0
                 THEN ConfiguredPasses(config.pipeline.passes)
                 ELSE DefaultPasses(config.provider)
    /\ cfg' = [called |-> TRUE, pipeline |-> config.pipeline,
               provider |-> config.provider]
    /\ UNCHANGED <<files, findings, events, closed, emitted, pc, pi, fi,
                   local, aj, ret, endTime, calls, outcomes>>
    /\ UNCHANGED <<aggVars, sortVars, reportVars, parseVars, menuVars,
                   received, rootVars, selectVars>>

\* Execute is invoked with the first n scanned files: close(po.events) is
\* deferred and the range loop over the passes begins.
Execute(n) ==
    /\ pc = "idle"
    /\ calls = 0
    /\ Len(passes) * n <= MaxRequests
    /\ files' = SubSeq(FilePathSeq, 1, n)
    /\ calls' = 1
    /\ pi' = 1
    /\ pc' = "passes"
    /\ UNCHANGED <<passes, findings, events, closed, emitted, fi, local, aj,
                   ret, endTime, outcomes>>
    /\ UNCHANGED <<aggVars, auxVars>>

\* executePass, up to its first send: Status = running, StartTime = now.
StartPass ==
    /\ pc = "passes"
    /\ pi <= Len(passes)
    /\ passes' = [passes EXCEPT ![pi].status = PassRunning,
                                ![pi].startSet = TRUE]
    /\ pc' = "sendStarted"
    /\ UNCHANGED <<files, findings, events, closed, emitted, pi, fi, local,
                   aj, ret, endTime, calls, outcomes>>
    /\ UNCHANGED <<aggVars, auxVars>>

\* po.events <- PassStarted; runPassAnalysis is entered.
SendPassStarted ==
    /\ pc = "sendStarted"
    /\ Send(Event(EventPassStarted, pi, "", "", ""))
    /\ fi' = 1
    /\ local' = <<>>
    /\ pc' = "files"
    /\ UNCHANGED <<passes, files, findings, closed, pi, aj, ret, endTime,
                   calls, outcomes>>
    /\ UNCHANGED <<aggVars, auxVars>>

\* runPassAnalysis, head of the loop body: po.events <- PassProgress.
SendPassProgress ==
    /\ pc = "files"
    /\ fi <= Len(files)
    /\ Send(Event(EventPassProgress, pi, "", "Analyzing " \o files[fi], ""))
    /\ pc' = "analyze"
    /\ UNCHANGED <<passes, files, findings, closed, pi, fi, local, aj, ret,
                   endTime, calls, outcomes>>
    /\ UNCHANGED <<aggVars, auxVars>>

\* What became of file fi in pass pi: the result of the build and the
\* request, and what the response was parsed to.
Outcome(result, parsed) ==
    [pass |-> pi, file |-> fi, result |-> result, parsed |-> parsed]

\* A faulty skip: the loop stays on the file it could not analyze.
SkipFileAgain(result) ==
    /\ fi' = fi
    /\ pc' = "files"
    /\ outcomes' = Append(outcomes, Outcome(result, <<>>))
    /\ UNCHANGED <<passes, files, findings, events, closed, emitted, pi,
                   local, aj, ret, endTime, calls>>
    /\ UNCHANGED <<aggVars, auxVars>>

\* The `continue` of a skipped file.
SkipFile(result) ==
    /\ fi' = fi + 1
    /\ pc' = "files"
    /\ outcomes' = Append(outcomes, Outcome(result, <<>>))
    /\ UNCHANGED <<passes, files, findings, events, closed, emitted, pi,
                   local, aj, ret, endTime, calls>>
    /\ UNCHANGED <<aggVars, auxVars>>

\* BuildPromptForFile returns an error (the file cannot be read).
BuildPromptFails ==
    /\ pc = "analyze"
    /\ SkipFile("build_error")

\* A faulty loop: a failed request ends the file loop (break).
RequestFailsBreak ==
    /\ pc = "analyze"
    /\ fi' = Len(files) + 1
    /\ pc' = "files"
    /\ outcomes' = Append(outcomes, Outcome("request_error", <<>>))
    /\ UNCHANGED <<passes, files, findings, events, closed, emitted, pi,
                   local, aj, ret, endTime, calls>>
    /\ UNCHANGED <<aggVars, auxVars>>

\* po.provider.Request returns an error.
RequestFails ==
    /\ pc = "analyze"
    /\ SkipFile("request_error")

\* A faulty loop body: the response's findings replace the collected ones.
CollectReplacing(response) ==
    local' = ParseFindingsFromResponse(files[fi], response)

\* findings = append(findings, ParseFindingsFromResponse(...)...)
Collect(response) ==
    local' = local \o ParseFindingsFromResponse(files[fi], response)

\* po.provider.Request returns a response, which is parsed and collected.
RequestReturns(response) ==
    /\ pc = "analyze"
    /\ Collect(response)
    /\ fi' = fi + 1
    /\ pc' = "files"
    /\ outcomes' = Append(outcomes,
           Outcome("ok", ParseFindingsFromResponse(files[fi], response)))
    /\ UNCHANGED <<passes, files, findings, events, closed, emitted, pi, aj,
                   ret, endTime, calls>>
    /\ UNCHANGED <<aggVars, auxVars>>

\* runPassAnalysis returns (findings, nil) after the last file.
ReturnFindings ==
    /\ pc = "files"
    /\ fi > Len(files)
    /\ aj' = 1
    /\ pc' = "findings"
    /\ UNCHANGED <<passes, files, findings, events, closed, emitted, pi, fi,
                   local, ret, endTime, calls, outcomes>>
    /\ UNCHANGED <<aggVars, auxVars>>

\* A faulty stamp: the name of the pipeline's first pass.
StampFirst(f) == [f EXCEPT !.pass = passes[1].name]

\* A faulty stamp: the pass field is left as the parser made it.
StampNone(f) == f

\* finding.Pass = pass.Name
Stamp(f) == [f EXCEPT !.pass = passes[pi].name]

\* A faulty collection: a finding whose key is already collected is left
\* out.
CollectedUnique(fs, f) ==
    IF \E i \in 1..Len(fs) : Key(fs[i]) = Key(f) THEN fs ELSE Append(fs, f)

\* po.pipeline.Findings = append(po.pipeline.Findings, finding)
Collected(fs, f) == Append(fs, f)

\* executePass, the loop over the returned findings, up to its send: the
\* finding is stamped and appended to Pipeline.Findings.
AppendFinding ==
    /\ pc = "findings"
    /\ aj <= Len(local)
    /\ local' = [local EXCEPT ![aj] = Stamp(local[aj])]
    /\ findings' = Collected(findings, Stamp(local[aj]))
    /\ pc' = "sendFinding"
    /\ UNCHANGED <<passes, files, events, closed, emitted, pi, fi, aj, ret,
                   endTime, calls, outcomes>>
    /\ UNCHANGED <<aggVars, auxVars>>

\* po.events <- FindingAdded
SendFindingAdded ==
    /\ pc = "sendFinding"
    /\ Send(Event(EventFindingAdded, 0, local[aj], "", ""))
    /\ aj' = aj + 1
    /\ pc' = "findings"
    /\ UNCHANGED <<passes, files, findings, closed, pi, fi, local, ret,
                   endTime, calls, outcomes>>
    /\ UNCHANGED <<aggVars, auxVars>>

\* A faulty end of executePass: the status is left as it is.
CompletedStatusKept(p) == [p EXCEPT !.endSet = TRUE]

\* A faulty end of executePass: the pass is reset for another run.
CompletedStatusReset(p) == [p EXCEPT !.status = PassPending, !.endSet = TRUE]

\* pass.Status = PassCompleted; pass.EndTime = time.Now()
CompletedStatus(p) == [p EXCEPT !.status = PassCompleted, !.endSet = TRUE]

\* executePass after the loop over the findings, up to its last send.
CompletePass ==
    /\ pc = "findings"
    /\ aj > Len(local)
    /\ passes' = [passes EXCEPT ![pi] = CompletedStatus(passes[pi])]
    /\ pc' = "sendCompleted"
    /\ UNCHANGED <<files, findings, events, closed, emitted, pi, fi, local,
                   aj, ret, endTime, calls, outcomes>>
    /\ UNCHANGED <<aggVars, auxVars>>

\* po.events <- PassCompleted; executePass returns nil and Execute's loop
\* goes on to the next pass.
SendPassCompleted ==
    /\ pc = "sendCompleted"
    /\ Send(Event(EventPassCompleted, pi, "", "", ""))
    /\ pi' = pi + 1
    /\ pc' = "passes"
    /\ UNCHANGED <<passes, files, findings, closed, fi, local, aj, ret,
                   endTime, calls, outcomes>>
    /\ UNCHANGED <<aggVars, auxVars>>

\* A faulty Execute: no deferred close.
FinishNoClose ==
    /\ pc = "passes"
    /\ pi > Len(passes)
    /\ endTime' = TRUE
    /\ ret' = "nil"
    /\ pc' = "done"
    /\ UNCHANGED <<passes, files, findings, events, closed, emitted, pi, fi,
                   local, aj, calls, outcomes>>
    /\ UNCHANGED <<aggVars, auxVars>>

\* A faulty Execute: Pipeline.EndTime is not recorded.
FinishNoEndTime ==
    /\ pc = "passes"
    /\ pi > Len(passes)
    /\ ~closed
    /\ ret' = "nil"
    /\ closed' = TRUE
    /\ pc' = "done"
    /\ UNCHANGED <<passes, files, findings, events, emitted, pi, fi, local,
                   aj, endTime, calls, outcomes>>
    /\ UNCHANGED <<aggVars, auxVars>>

\* Execute after its loop: EndTime = now, return nil, and the deferred
\* close(po.events).
Finish ==
    /\ pc = "passes"
    /\ pi > Len(passes)
    /\ ~closed
    /\ endTime' = TRUE
    /\ ret' = "nil"
    /\ closed' = TRUE
    /\ pc' = "done"
    /\ UNCHANGED <<passes, files, findings, events, emitted, pi, fi, local,
                   aj, calls, outcomes>>
    /\ UNCHANGED <<aggVars, auxVars>>

\* A faulty abort: after the failed pass Execute's loop goes on.
AfterPassFailedContinue ==
    /\ pi' = pi + 1
    /\ pc' = "passes"
    /\ UNCHANGED <<ret, closed>>

\* return fmt.Errorf("pass %s failed: %w", ...), and the deferred
\* close(po.events).
AfterPassFailed ==
    /\ ret' = "error"
    /\ closed' = TRUE
    /\ pc' = "done"
    /\ UNCHANGED pi

-----------------------------------------------------------------------------
(* The pass-fatal path.  runPassAnalysis as written returns a nil error on  *)
(* every path, so Execute's error branch is entered only when an error is *)
(* forced into the return of runPassAnalysis; PassFatalError forces one.  *)

\* The error string of the forced error.
FatalErr == "pass-fatal"

\* runPassAnalysis returns (nil, err) at a head of its file loop, and
\* executePass returns that err.
PassFatalError ==
    /\ pc = "files"
    /\ pc' = "passError"
    /\ UNCHANGED <<passes, files, findings, events, closed, emitted, pi, fi,
                   local, aj, ret, endTime, calls, outcomes>>
    /\ UNCHANGED <<aggVars, auxVars>>

\* A faulty error branch: the error is recorded and the status is left as
\* executePass set it.
FailedStatusKept(p) == [p EXCEPT !.error = FatalErr, !.endSet = TRUE]

\* pass.Status = PassFailed; pass.Error = err.Error(); pass.EndTime = now
FailedStatus(p) ==
    [p EXCEPT !.status = PassFailed, !.error = FatalErr, !.endSet = TRUE]

\* Execute's error branch, up to its send: Status = failed, Error =
\* err.Error(), EndTime = now.
FailPass ==
    /\ pc = "passError"
    /\ passes' = [passes EXCEPT ![pi] = FailedStatus(passes[pi])]
    /\ pc' = "sendFailed"
    /\ UNCHANGED <<files, findings, events, closed, emitted, pi, fi, local,
                   aj, ret, endTime, calls, outcomes>>
    /\ UNCHANGED <<aggVars, auxVars>>

\* po.events <- PassFailed
SendPassFailed ==
    /\ pc = "sendFailed"
    /\ Send(Event(EventPassFailed, pi, "", "", FatalErr))
    /\ pc' = "returnError"
    /\ UNCHANGED <<passes, files, findings, closed, pi, fi, local, aj, ret,
                   endTime, calls, outcomes>>
    /\ UNCHANGED <<aggVars, auxVars>>

\* Execute returns the wrapped error; the deferred close runs.
ReturnError ==
    /\ pc = "returnError"
    /\ ~closed
    /\ AfterPassFailed
    /\ UNCHANGED <<passes, files, findings, events, emitted, fi, local, aj,
                   endTime, calls, outcomes>>
    /\ UNCHANGED <<aggVars, auxVars>>

-----------------------------------------------------------------------------
(* A second invocation of Execute on the same orchestrator, after the      *)
(* first has returned.  Nothing in Execute tells a first call from a later *)
(* one: the same code runs on the same pipeline and the same channel.      *)

\* Execute is invoked again with the same files.
ExecuteAgain ==
    /\ pc = "done"
    /\ calls = 1
    /\ calls' = 2
    /\ pi' = 1
    /\ pc' = "passes"
    /\ UNCHANGED <<passes, files, findings, events, closed, emitted, fi,
                   local, aj, ret, endTime, outcomes>>
    /\ UNCHANGED <<aggVars, auxVars>>

\* A send on the closed channel panics; the deferred close of the closed
\* channel panics in turn, and the goroutine dies.
SendOnClosed ==
    /\ \/ pc \in {"sendStarted", "sendFinding", "sendCompleted"}
       \/ pc = "files" /\ fi <= Len(files)
    /\ closed
    /\ pc' = "panicked"
    /\ UNCHANGED <<passes, files, findings, events, closed, emitted, pi, fi,
                   local, aj, ret, endTime, calls, outcomes>>
    /\ UNCHANGED <<aggVars, auxVars>>

\* With no pass to run, Execute sets EndTime and returns; the deferred
\* close of the closed channel panics.
CloseOfClosed ==
    /\ pc = "passes"
    /\ pi > Len(passes)
    /\ closed
    /\ endTime' = TRUE
    /\ pc' = "panicked"
    /\ UNCHANGED <<passes, files, findings, events, closed, emitted, pi, fi,
                   local, aj, ret, calls, outcomes>>
    /\ UNCHANGED <<aggVars, auxVars>>

-----------------------------------------------------------------------------
(* Specifications *)

\* No aggregator operation yet.
SortInit ==
    /\ lastOp = "new"
    /\ preSort = <<>>

\* GenerateReport has not been called.
ReportInit ==
    /\ reportIn = [called |-> FALSE]
    /\ report = [generated |-> FALSE]

\* ParseFindingsFromResponse has not been called on its own.
ParseInit ==
    /\ parseIn = [called |-> FALSE]
    /\ parseOut = <<>>

\* No Factory has built the orchestrator.
FactoryInit == cfg = [called |-> FALSE]

\* NewAppModel and NewMenuModel: the main menu, on its first option.
MenuInit ==
    /\ selected = 0
    /\ state = "menu"
    /\ msgs = <<>>
    /\ quit = FALSE
    /\ keys = <<>>

\* Nothing was taken from the channel.
ConsumerInit == received = <<>>

\* NewRootModel without autoRun: the menu, on its first item.
RootInit ==
    /\ rm = [mode |-> "menu", pipelineStarted |-> FALSE, selectedIndex |-> 0,
             inSubmenu |-> FALSE, quit |-> FALSE]
    /\ rt = [startAnalysisMsgs |-> 0, startPipelineCmds |-> 0,
             pipelineStartedMsgs |-> 0, pipelineEventMsgs |-> 0,
             readers |-> 0, executes |-> 0, keys |-> 0]

\* NewModelSelectModel: the provider step, on its first item, no models.
SelectInit ==
    /\ msm = [step |-> "provider", selected |-> 0, models |-> <<>>,
              selectedProvider |-> "", loadingModels |-> FALSE,
              left |-> FALSE]
    /\ mst = [loads |-> <<>>, projectModel |-> [provider |-> "", model |-> ""],
              keys |-> 0]

AuxInit ==
    /\ SortInit /\ ReportInit /\ ParseInit /\ FactoryInit /\ MenuInit
    /\ ConsumerInit /\ RootInit /\ SelectInit

Init == AggInit /\ OrchInit /\ AuxInit

\* The orchestrator as written, one Execute call.
Next ==
    \/ AddPass
    \/ \E n \in 0..Len(FilePathSeq) : Execute(n)
    \/ StartPass
    \/ SendPassStarted
    \/ SendPassProgress
    \/ BuildPromptFails
    \/ RequestFails
    \/ \E r \in Responses : RequestReturns(r)
    \/ ReturnFindings
    \/ AppendFinding
    \/ SendFindingAdded
    \/ CompletePass
    \/ SendPassCompleted
    \/ Finish

Spec == Init /\ [][Next]_vars

\* The orchestrator with a pass-fatal error forced into runPassAnalysis.
NextFatal ==
    \/ Next
    \/ PassFatalError
    \/ FailPass
    \/ SendPassFailed
    \/ ReturnError

SpecFatal == Init /\ [][NextFatal]_vars

\* The orchestrator with a second Execute call after the first returned.
NextReentry ==
    \/ Next
    \/ ExecuteAgain
    \/ SendOnClosed
    \/ CloseOfClosed

SpecReentry == Init /\ [][NextReentry]_vars

\* The options of the main menu: START ANALYSIS, MODEL SELECT, SETTINGS
\* and EXIT.
MenuOptionStart == 0
MenuOptionModelSelect == 1
MenuOptionSettings == 2
MenuOptionExit == 3
MenuOptions ==
    <<MenuOptionStart, MenuOptionModelSelect, MenuOptionSettings,
      MenuOptionExit>>

\* The keys pressed.
Keys == {"q", "esc", "up", "down", "enter", "ctrl+c"}

\* AppModel.Update on a tea.KeyMsg while the main menu is shown: ctrl+c
\* quits; every other key goes to MenuModel.Update, where q and esc quit
\* on EXIT and move the selection to EXIT elsewhere, up and down move the
\* selection, and enter returns the command of a MenuSelectionMsg.
KeyMsg(key) ==
    /\ ~quit
    /\ state = "menu"
    /\ Len(keys) < MaxKeys
    /\ keys' = Append(keys, key)
    /\ CASE key = "ctrl+c" ->
              quit' = TRUE /\ UNCHANGED <<selected, msgs>>
         [] key \in {"q", "esc"} ->
              IF selected = MenuOptionExit
              THEN quit' = TRUE /\ UNCHANGED <<selected, msgs>>
              ELSE selected' = MenuOptionExit /\ UNCHANGED <<quit, msgs>>
         [] key = "up" ->
              /\ selected' = IF selected > 0 THEN selected - 1 ELSE selected
              /\ UNCHANGED <<quit, msgs>>
         [] key = "down" ->
              /\ selected' = IF selected < Len(MenuOptions) - 1
                             THEN selected + 1 ELSE selected
              /\ UNCHANGED <<quit, msgs>>
         [] key = "enter" ->
              /\ msgs' = Append(msgs, MenuOptions[selected + 1])
              /\ UNCHANGED <<selected, quit>>
    /\ UNCHANGED state
    /\ UNCHANGED <<aggVars, orchVars, sortVars, reportVars, parseVars, cfg,
                   received, rootVars, selectVars>>

\* AppModel.Update on a MenuSelectionMsg, handleMenuSelection: EXIT quits,
\* the other options open their screen; START ANALYSIS stays in the menu
\* when the findings cannot be loaded.
MenuSelectionMsg(loaded) ==
    /\ ~quit
    /\ msgs # <<>>
    /\ msgs' = Tail(msgs)
    /\ CASE Head(msgs) = MenuOptionStart ->
              /\ state' = IF loaded THEN "tui" ELSE state
              /\ UNCHANGED quit
         [] Head(msgs) = MenuOptionModelSelect ->
              state' = "modelSelect" /\ UNCHANGED quit
         [] Head(msgs) = MenuOptionSettings ->
              state' = "settings" /\ UNCHANGED quit
         [] Head(msgs) = MenuOptionExit ->
              quit' = TRUE /\ UNCHANGED state
    /\ UNCHANGED <<selected, keys>>
    /\ UNCHANGED <<aggVars, orchVars, sortVars, reportVars, parseVars, cfg,
                   received, rootVars, selectVars>>

\* The main menu.
NextMenu ==
    \/ \E key \in Keys : KeyMsg(key)
    \/ \E loaded \in BOOLEAN : MenuSelectionMsg(loaded)

SpecMenu == Init /\ [][NextMenu]_vars

\* The file lists of the long runs: as many files as fill the channel, or
\* half of it, give or take two, and the short lists.
LongFile(i) == "f" \o ToString(i) \o ".go"
LongFileCounts ==
    (0..2) \cup {ChanCap - k : k \in 0..2}
           \cup {(ChanCap \div 2) - k : k \in 0..2}

\* Execute is invoked with n scanned files.
ExecuteLong(n) ==
    /\ pc = "idle"
    /\ calls = 0
    /\ files' = [i \in 1..n |-> LongFile(i)]
    /\ calls' = 1
    /\ pi' = 1
    /\ pc' = "passes"
    /\ UNCHANGED <<passes, findings, events, closed, emitted, fi, local, aj,
                   ret, endTime, outcomes>>
    /\ UNCHANGED <<aggVars, auxVars>>

\* A faulty consumer: the event is taken and lost.
ReceiveLost ==
    /\ events # <<>>
    /\ events' = Tail(events)
    /\ UNCHANGED received
    /\ UNCHANGED <<passes, files, findings, closed, emitted, pc, pi, fi,
                   local, aj, ret, endTime, calls, outcomes>>
    /\ UNCHANGED <<aggVars, sortVars, reportVars, parseVars, cfg, menuVars,
                   rootVars, selectVars>>

\* waitForPipelineEvent: event, ok := <-events takes the oldest event of
\* the channel, also after the close while events are left in it.
Receive ==
    /\ events # <<>>
    /\ events' = Tail(events)
    /\ received' = Append(received, Head(events))
    /\ UNCHANGED <<passes, files, findings, closed, emitted, pc, pi, fi,
                   local, aj, ret, endTime, calls, outcomes>>
    /\ UNCHANGED <<aggVars, sortVars, reportVars, parseVars, cfg, menuVars,
                   rootVars, selectVars>>

\* The steps of Execute once it is invoked; the provider fails on every
\* file but the last one.
RunLong ==
    \/ StartPass
    \/ SendPassStarted
    \/ SendPassProgress
    \/ RequestFails
    \/ fi = Len(files) /\ \E r \in Responses : RequestReturns(r)
    \/ ReturnFindings
    \/ AppendFinding
    \/ SendFindingAdded
    \/ CompletePass
    \/ SendPassCompleted
    \/ Finish

\* Long runs of up to two passes whose events nobody takes.
NextNoDrain ==
    \/ Len(passes) < 2 /\ AddPass
    \/ \E n \in LongFileCounts : ExecuteLong(n)
    \/ RunLong

SpecNoDrain == Init /\ [][NextNoDrain]_vars /\ WF_vars(RunLong)

\* Runs of up to two passes with a consumer that keeps taking the events.
NextDrain ==
    \/ Len(passes) < 2 /\ AddPass
    \/ \E n \in (0..2) \cup {ChanCap \div 2, ChanCap} :
          Len(passes) * n <= ChanCap /\ ExecuteLong(n)
    \/ RunLong
    \/ Receive

SpecDrain ==
    Init /\ [][NextDrain]_vars /\ WF_vars(RunLong) /\ WF_vars(Receive)

\* What the actions of RootModel leave alone.
RootUnchanged ==
    UNCHANGED <<aggVars, orchVars, sortVars, reportVars, parseVars, cfg,
                menuVars, received, selectVars>>

\* The keys pressed while RootModel runs.
RootKeys == {"enter", "up", "down", "esc", "q", "ctrl+c"}

\* len(m.menuItems) - 1 of the ui.MenuModel: Start Analysis, Configure
\* Model Pipeline, Settings, Exit.
LastMenuItem == 3

\* RootModel.Update on a tea.KeyMsg: ctrl+c quits; in menu mode the key
\* goes to MenuModel.Update, where enter on Start Analysis returns the
\* command of a StartAnalysisMsg; in TUI mode it goes to Model.Update,
\* where q quits.
RootUpdateKeyMsg(key) ==
    /\ ~rm.quit
    /\ rt.keys < MaxKeys
    /\ IF key = "ctrl+c" THEN
          /\ rm' = [rm EXCEPT !.quit = TRUE]
          /\ rt' = [rt EXCEPT !.keys = @ + 1]
       ELSE IF rm.mode = "tui" THEN
          /\ rm' = [rm EXCEPT !.quit = (key = "q")]
          /\ rt' = [rt EXCEPT !.keys = @ + 1]
       ELSE IF rm.inSubmenu THEN
          /\ rm' = [rm EXCEPT !.inSubmenu = (key # "esc")]
          /\ rt' = [rt EXCEPT !.keys = @ + 1]
       ELSE CASE key \in {"q", "esc"} ->
                  /\ rm' = [rm EXCEPT !.quit = TRUE]
                  /\ rt' = [rt EXCEPT !.keys = @ + 1]
              [] key = "up" ->
                  /\ rm' = [rm EXCEPT !.selectedIndex =
                                IF @ > 0 THEN @ - 1 ELSE @]
                  /\ rt' = [rt EXCEPT !.keys = @ + 1]
              [] key = "down" ->
                  /\ rm' = [rm EXCEPT !.selectedIndex =
                                IF @ < LastMenuItem THEN @ + 1 ELSE @]
                  /\ rt' = [rt EXCEPT !.keys = @ + 1]
              [] key = "enter" ->
                  /\ rm' = [rm EXCEPT
                              !.inSubmenu = rm.selectedIndex \in {1, 2},
                              !.quit = (rm.selectedIndex = LastMenuItem)]
                  /\ rt' = [rt EXCEPT
                              !.keys = @ + 1,
                              !.startAnalysisMsgs =
                                  IF rm.selectedIndex = 0 THEN @ + 1 ELSE @]
    /\ RootUnchanged

\* RootModel.Update on a StartAnalysisMsg: the mode becomes TUI, a new TUI
\* model is made and the batch of its Init and startPipeline is returned.
RootUpdateStartAnalysisMsg ==
    /\ ~rm.quit
    /\ rt.startAnalysisMsgs > 0
    /\ rm' = [rm EXCEPT !.mode = "tui", !.pipelineStarted = TRUE]
    /\ rt' = [rt EXCEPT !.startAnalysisMsgs = @ - 1,
                        !.startPipelineCmds = @ + 1]
    /\ RootUnchanged

\* The command of startPipeline runs: go Execute(...) on the orchestrator
\* of RootModel, and a PipelineStartedMsg with its channel.
startPipeline ==
    /\ ~rm.quit
    /\ rt.startPipelineCmds > 0
    /\ rt' = [rt EXCEPT !.startPipelineCmds = @ - 1,
                        !.executes = @ + 1,
                        !.pipelineStartedMsgs = @ + 1]
    /\ UNCHANGED rm
    /\ RootUnchanged

\* RootModel.Update on a PipelineStartedMsg, forwarded to Model.Update in
\* TUI mode: the command of waitForPipelineEvent is returned.
RootUpdatePipelineStartedMsg ==
    /\ ~rm.quit
    /\ rt.pipelineStartedMsgs > 0
    /\ rt' = [rt EXCEPT !.pipelineStartedMsgs = @ - 1,
                        !.readers = IF rm.mode = "tui" THEN @ + 1 ELSE @]
    /\ UNCHANGED rm
    /\ RootUnchanged

\* The command of waitForPipelineEvent ends: with an event, which becomes
\* a PipelineEventMsg, or on the closed channel, with no message.
waitForPipelineEventCmd(ok) ==
    /\ ~rm.quit
    /\ rt.readers > 0
    /\ rt' = [rt EXCEPT !.readers = @ - 1,
                        !.pipelineEventMsgs = IF ok THEN @ + 1 ELSE @]
    /\ UNCHANGED rm
    /\ RootUnchanged

\* Model.Update on a PipelineEventMsg: the next waitForPipelineEvent.
RootUpdatePipelineEventMsg ==
    /\ ~rm.quit
    /\ rt.pipelineEventMsgs > 0
    /\ rt' = [rt EXCEPT !.pipelineEventMsgs = @ - 1, !.readers = @ + 1]
    /\ UNCHANGED rm
    /\ RootUnchanged

\* The menu-driven UI of RootModel.
NextRoot ==
    \/ \E key \in RootKeys : RootUpdateKeyMsg(key)
    \/ RootUpdateStartAnalysisMsg
    \/ startPipeline
    \/ RootUpdatePipelineStartedMsg
    \/ \E ok \in BOOLEAN : waitForPipelineEventCmd(ok)
    \/ RootUpdatePipelineEventMsg

SpecRoot == Init /\ [][NextRoot]_vars

\* What the actions of ModelSelectModel leave alone.
SelectUnchanged ==
    UNCHANGED <<aggVars, orchVars, sortVars, reportVars, parseVars, cfg,
                menuVars, received, rootVars>>

\* m.providers, by name.
ProviderNames == <<"anthropic", "openai", "google", "ollama">>

\* What ListModels of each provider answers.
ModelsOf(provider) ==
    CASE provider = "anthropic" -> <<"claude-sonnet", "claude-haiku">>
      [] provider = "openai" -> <<"gpt-4">>
      [] provider = "google" -> <<"gemini-pro">>
      [] provider = "ollama" -> <<"llama3">>
      [] OTHER -> <<>>

\* s without its element at position i.
RemoveAt(s, i) == SubSeq(s, 1, i - 1) \o SubSeq(s, i + 1, Len(s))

\* ModelSelectModel.Update on a tea.KeyMsg: q and esc go back to the main
\* menu; up and down move the selection; enter is handleSelection, which
\* in the provider step sets selectedProvider and returns loadModels, and
\* in the model step goes back to the providers on the item after the
\* models and else writes the pair to config.Project.Model.
SelectKeyMsg(key) ==
    /\ ~msm.left
    /\ mst.keys < MaxKeys
    /\ CASE key \in {"q", "esc"} ->
              /\ msm' = [msm EXCEPT !.left = TRUE]
              /\ mst' = [mst EXCEPT !.keys = @ + 1]
         [] key = "up" ->
              /\ msm' = [msm EXCEPT !.selected = IF @ > 0 THEN @ - 1 ELSE @]
              /\ mst' = [mst EXCEPT !.keys = @ + 1]
         [] key = "down" ->
              LET maxItems == IF msm.step = "provider"
                              THEN Len(ProviderNames)
                              ELSE Len(msm.models) + 1
              IN /\ msm' = [msm EXCEPT !.selected =
                               IF @ < maxItems - 1 THEN @ + 1 ELSE @]
                 /\ mst' = [mst EXCEPT !.keys = @ + 1]
         [] key = "enter" ->
              IF msm.step = "provider" THEN
                  IF msm.selected >= Len(ProviderNames) THEN
                      /\ msm' = [msm EXCEPT !.left = TRUE]
                      /\ mst' = [mst EXCEPT !.keys = @ + 1]
                  ELSE
                      /\ msm' = [msm EXCEPT
                                  !.selectedProvider =
                                      ProviderNames[msm.selected + 1],
                                  !.step = "model",
                                  !.selected = 0,
                                  !.loadingModels = TRUE]
                      /\ mst' = [mst EXCEPT
                                  !.keys = @ + 1,
                                  !.loads = Append(@, [phase |-> "cmd",
                                                       models |-> <<>>])]
              ELSE IF msm.selected >= Len(msm.models) THEN
                  /\ msm' = [msm EXCEPT !.step = "provider", !.selected = 0,
                                        !.models = <<>>]
                  /\ mst' = [mst EXCEPT !.keys = @ + 1]
              ELSE
                  /\ msm' = [msm EXCEPT !.left = TRUE]
                  /\ mst' = [mst EXCEPT
                              !.keys = @ + 1,
                              !.projectModel =
                                  [provider |-> msm.selectedProvider,
                                   model |-> msm.models[msm.selected + 1]]]
    /\ SelectUnchanged

\* The command of loadModels runs: it reads m.selectedProvider and asks
\* that provider for its models; an error gives the empty list.
loadModels(i, failed) ==
    /\ ~msm.left
    /\ i \in 1..Len(mst.loads)
    /\ mst.loads[i].phase = "cmd"
    /\ mst' = [mst EXCEPT !.loads[i] =
                  [phase |-> "msg",
                   models |-> IF failed THEN <<>>
                              ELSE ModelsOf(msm.selectedProvider)]]
    /\ UNCHANGED msm
    /\ SelectUnchanged

\* ModelSelectModel.Update on a modelsLoadedMsg.
modelsLoadedMsg(i) ==
    /\ ~msm.left
    /\ i \in 1..Len(mst.loads)
    /\ mst.loads[i].phase = "msg"
    /\ msm' = [msm EXCEPT !.models = mst.loads[i].models,
                          !.loadingModels = FALSE]
    /\ mst' = [mst EXCEPT !.loads = RemoveAt(@, i)]
    /\ SelectUnchanged

\* The model-selection menu.
NextSelect ==
    \/ \E key \in {"q", "esc", "up", "down", "enter"} : SelectKeyMsg(key)
    \/ \E i \in 1..MaxKeys, failed \in BOOLEAN : loadModels(i, failed)
    \/ \E i \in 1..MaxKeys : modelsLoadedMsg(i)

SpecSelect == Init /\ [][NextSelect]_vars

\* The orchestrator the Factory builds, and its run.
NextFactory ==
    \/ /\ ~cfg.called
       /\ \E config \in Configs : CreateDefaultPipeline(config)
    \/ /\ cfg.called
       /\ \/ \E n \in 0..Len(FilePathSeq) : Execute(n)
          \/ StartPass
          \/ SendPassStarted
          \/ SendPassProgress
          \/ BuildPromptFails
          \/ RequestFails
          \/ \E r \in Responses : RequestReturns(r)
          \/ ReturnFindings
          \/ AppendFinding
          \/ SendFindingAdded
          \/ CompletePass
          \/ SendPassCompleted
          \/ Finish

SpecFactory == Init /\ [][NextFactory]_vars

\* The aggregator alone.
NextAgg ==
    \/ \E f \in AggInputs : Add(f)
    \/ \E list \in AggBatches : AddMultiple(list)

SpecAgg == Init /\ [][NextAgg]_vars

\* The aggregator with Sort.
NextSort ==
    \/ NextAgg
    \/ Sort

SpecSort == Init /\ [][NextSort]_vars

RECURSIVE SeqsUpTo(_, _)
\* The sequences over S of length at most n.
SeqsUpTo(S, n) ==
    IF n = 0 THEN {<<>>}
    ELSE LET shorter == SeqsUpTo(S, n - 1)
         IN shorter \cup {Append(q, x) : q \in shorter, x \in S}

\* Report generation: one call of GenerateReport, on any arguments.
NextReport ==
    /\ ~reportIn.called
    /\ \E input \in SeqsUpTo(AggInputs, MaxAdds) :
          \E startT \in Times, endT \in Times :
              GenerateReport(input, startT, endT)

SpecReport == Init /\ [][NextReport]_vars

\* The texts the parser is called with: every text of up to MaxTextLen
\* pieces, and an array of one element for every severity string.
Texts ==
    SeqsUpTo(Tokens, MaxTextLen)
        \cup {<<LBracket, Obj(Raw(1, 2, sev, "k", "m", "")), RBracket>> :
                 sev \in SeverityStrings}

\* Parsing: one call of ParseFindingsFromResponse, on any text.
NextParse ==
    /\ ~parseIn.called
    /\ \E response \in Texts : Parse(FilePaths[1], response)

SpecParse == Init /\ [][NextParse]_vars

-----------------------------------------------------------------------------
(* Claims on the FindingsAggregator *)

\* The first position of `added` that carries the five-tuple k.
FirstAdded(k) ==
    CHOOSE n \in 1..Len(added) :
        /\ Key(added[n]) = k
        /\ \A m \in 1..(n - 1) : Key(added[m]) # k

\* C1: after any sequence of Add/AddMultiple calls no two kept findings have
\* the same (file, lineStart, lineEnd, kind, message); every kept finding is,
\* with all its fields, the first finding that was added with its tuple; and
\* when every added finding has one and the same tuple exactly one is kept.
C1_FirstOfEqualKept ==
    /\ \A i, j \in 1..Len(aggFindings) :
          i # j => Key(aggFindings[i]) # Key(aggFindings[j])
    /\ \A i \in 1..Len(aggFindings) :
          /\ \E n \in 1..Len(added) : Key(added[n]) = Key(aggFindings[i])
          /\ aggFindings[i] = added[FirstAdded(Key(aggFindings[i]))]
    /\ (added # <<>> /\ \A n \in 1..Len(added) : Key(added[n]) = Key(added[1]))
          => aggFindings = <<added[1]>>

\* C1 witness: three findings added, the first and the last with equal
\* tuples and different severities, and less kept than added.
C1_Witness ==
    /\ Len(added) = 3
    /\ Key(added[1]) = Key(added[3])
    /\ added[1].severity # added[3].severity
    /\ Key(added[2]) # Key(added[1])
    /\ Len(aggFindings) = 2

-----------------------------------------------------------------------------
(* Claims on the PipelineOrchestrator *)

PassIdx == 1..Len(passes)
EventIdx == 1..Len(emitted)
OutcomeIdx == 1..Len(outcomes)

\* The positions in the stream of the events of the given type and pass.
EventsOf(type, p) ==
    {i \in EventIdx : emitted[i].type = type /\ emitted[i].pass = p}

\* The positions of the terminal events of pass p.
TerminalOf(p) ==
    EventsOf(EventPassCompleted, p) \cup EventsOf(EventPassFailed, p)

\* C2: in every state of a run the collected findings (GetFindings) hold no
\* two findings with the same (file, lineStart, lineEnd, kind, message).
C2_CollectedDeduplicated ==
    \A i, j \in 1..Len(findings) :
        i # j => Key(findings[i]) # Key(findings[j])

\* C3: a failed build or request on a file never fails the pass and never
\* stops its later files: a completed pass has an outcome for every file
\* of the list, and every finding parsed from a file whose request
\* succeeded is, stamped with the pass, among the run's findings; when the
\* run is over every pass is completed.
C3_PerFileResilience ==
    \A p \in PassIdx :
        /\ passes[p].status # PassFailed
        /\ pc = "done" => passes[p].status = PassCompleted
        /\ passes[p].status = PassCompleted =>
             /\ \A f \in 1..Len(files) :
                   \E k \in OutcomeIdx :
                       outcomes[k].pass = p /\ outcomes[k].file = f
             /\ \A k \in OutcomeIdx :
                   (outcomes[k].pass = p /\ outcomes[k].result = "ok") =>
                       \A n \in 1..Len(outcomes[k].parsed) :
                           \E m \in 1..Len(findings) :
                               findings[m] =
                                   [outcomes[k].parsed[n]
                                       EXCEPT !.pass = passes[p].name]

\* C3 witness: a completed pass over three files whose request failed on
\* the second file only, with findings of the first and the third file.
C3_Witness ==
    /\ Len(files) = 3
    /\ Len(passes) = 1
    /\ passes[1].status = PassCompleted
    /\ Len(outcomes) = 3
    /\ outcomes[1].result = "ok" /\ outcomes[1].parsed # <<>>
    /\ outcomes[2].result = "request_error"
    /\ outcomes[3].result = "ok" /\ outcomes[3].parsed # <<>>
    /\ \E m \in 1..Len(findings) : findings[m].file = FilePathSeq[3]

\* Whether outcome o is a per-file error: the prompt could not be built,
\* the request failed, or the response held no parseable array.
IsFileError(o) == o.result # "ok" \/ o.parsed = <<>>

\* C4: per-file errors never surface: no pass is failed, no PassFailed
\* event is sent, Execute does not return an error; and when Execute has
\* returned it returned nil, every pass is completed and the pipeline's
\* end time is recorded.
C4_PerFileErrorsCompleteNormally ==
    /\ ret # "error"
    /\ \A i \in EventIdx : emitted[i].type # EventPassFailed
    /\ \A p \in PassIdx : passes[p].status # PassFailed
    /\ pc = "done" =>
         /\ ret = "nil"
         /\ endTime
         /\ \A p \in PassIdx : passes[p].status = PassCompleted

\* C4 witness: a finished run of two passes in which every file of every
\* pass hit a per-file error, each kind of error at least once.
C4_Witness ==
    /\ pc = "done"
    /\ Len(passes) = 2
    /\ Len(outcomes) = 4
    /\ \A k \in OutcomeIdx : IsFileError(outcomes[k])
    /\ \E k \in OutcomeIdx : outcomes[k].result = "build_error"
    /\ \E k \in OutcomeIdx : outcomes[k].result = "request_error"
    /\ \E k \in OutcomeIdx : outcomes[k].result = "ok"
    /\ findings = <<>>

\* C5: when pass k has failed, every pass before k is completed, pass k
\* carries a non-empty error, every pass after k is pending and was never
\* started, no finding is stamped with a later pass; once PassFailed has
\* been sent it stays the last event, and when Execute has returned it
\* returned an error and the stream is closed.
C5_PassFatalAbort ==
    \A k \in PassIdx :
        passes[k].status = PassFailed =>
            /\ passes[k].error # ""
            /\ \A j \in 1..(k - 1) : passes[j].status = PassCompleted
            /\ \A j \in (k + 1)..Len(passes) :
                  /\ passes[j].status = PassPending
                  /\ ~passes[j].startSet
                  /\ EventsOf(EventPassStarted, j) = {}
                  /\ \A m \in 1..Len(findings) :
                        findings[m].pass # passes[j].name
            /\ pc \in {"sendFailed", "returnError", "done"}
            /\ pc \in {"returnError", "done"} =>
                  /\ emitted # <<>>
                  /\ emitted[Len(emitted)].type = EventPassFailed
                  /\ emitted[Len(emitted)].pass = k
            /\ pc = "done" => (ret = "error" /\ closed)

\* C5 witness: a three-pass run aborted in its second pass, after the
\* first pass collected findings.
C5_Witness ==
    /\ pc = "done"
    /\ Len(passes) = 3
    /\ passes[1].status = PassCompleted
    /\ passes[2].status = PassFailed
    /\ passes[3].status = PassPending
    /\ findings # <<>>
    /\ ret = "error"

\* The most findings one response of Responses holds.
MaxResponseLen ==
    LET lens == {Len(ParseFindingsFromResponse(FilePaths[1], r)) :
                    r \in Responses}
    IN CHOOSE n \in lens : \A m \in lens : m <= n

\* C6: the stream is closed exactly when Execute has returned, on every
\* return path; it stays closed, nothing is sent on it and nothing else
\* happens to the run after the close; the events of a run are bounded by
\* the passes, the files and the findings of the responses.
C6_StreamClosedOnceAtReturn ==
    /\ [](closed <=> ret # "none")
    /\ [](closed <=> pc = "done")
    /\ [](Len(emitted) <=
            Len(passes) * (2 + Len(files) * (1 + MaxResponseLen)))
    /\ [][closed => (closed' /\ emitted' = emitted /\ events' = events
                       /\ ret' = ret /\ pc' = pc)]_vars

\* C6 witness: Execute has returned nil after sending events, and the
\* stream is closed.
C6_Witness ==
    /\ closed
    /\ ret = "nil"
    /\ Len(emitted) >= 6
    /\ \E i \in EventIdx : emitted[i].type = EventFindingAdded

\* C7: every PassProgress event of a pass and every FindingAdded event
\* whose finding is stamped with the pass's name comes after the pass's
\* PassStarted event and before its terminal event; a pass has at most one
\* PassStarted and at most one terminal event, and exactly one of each
\* once it is completed or failed and Execute has moved on.
C7_EventsBracketed ==
    /\ \A p \in PassIdx :
          /\ Cardinality(EventsOf(EventPassStarted, p)) <= 1
          /\ Cardinality(TerminalOf(p)) <= 1
          /\ \A t \in TerminalOf(p) :
                \E b \in EventsOf(EventPassStarted, p) : b < t
          /\ (passes[p].startSet /\ (p < pi \/ pc = "done")) =>
                /\ Cardinality(EventsOf(EventPassStarted, p)) = 1
                /\ Cardinality(TerminalOf(p)) = 1
          /\ \A i \in EventIdx :
                (\/ emitted[i].type = EventPassProgress /\ emitted[i].pass = p
                 \/ /\ emitted[i].type = EventFindingAdded
                    /\ emitted[i].finding.pass = passes[p].name) =>
                    /\ \E b \in EventsOf(EventPassStarted, p) : b < i
                    /\ \A t \in TerminalOf(p) : i < t
    /\ \A i \in EventIdx :
          emitted[i].type = EventFindingAdded =>
              \E p \in PassIdx : emitted[i].finding.pass = passes[p].name

\* C7 witness: a finished run of two passes, each with a progress event
\* and a finding event between its PassStarted and its PassCompleted.
C7_Witness ==
    /\ pc = "done"
    /\ Len(passes) = 2
    /\ \A p \in PassIdx :
          /\ EventsOf(EventPassProgress, p) # {}
          /\ EventsOf(EventPassCompleted, p) # {}
          /\ \E i \in EventIdx :
                /\ emitted[i].type = EventFindingAdded
                /\ emitted[i].finding.pass = passes[p].name

\* C8: a step changes the status of a pass only from pending to running or
\* from running to completed or failed.
C8_StatusForwardOnly ==
    [][\A p \in PassIdx :
          passes'[p].status # passes[p].status =>
              \/ /\ passes[p].status = PassPending
                 /\ passes'[p].status = PassRunning
              \/ /\ passes[p].status = PassRunning
                 /\ passes'[p].status \in {PassCompleted, PassFailed}]_vars

\* C8 witness: one pass completed, the next running and a third pending.
C8_Witness ==
    /\ Len(passes) = 3
    /\ passes[1].status = PassCompleted
    /\ passes[2].status = PassRunning
    /\ passes[3].status = PassPending

\* C9: a second invocation of Execute has no effect: from the invocation
\* on no pass status, no collected finding and nothing of the stream
\* changes.
C9_SecondExecuteRejected ==
    [][calls' >= 2 =>
          /\ passes' = passes
          /\ findings' = findings
          /\ emitted' = emitted
          /\ events' = events
          /\ closed' = closed]_vars

\* C10: at most one pass is running; while pass k is running the passes
\* before it are completed and the passes after it are pending; the
\* PassStarted events come in the order in which the passes were added.
C10_PassesSequentialInOrder ==
    /\ Cardinality({p \in PassIdx : passes[p].status = PassRunning}) <= 1
    /\ \A k \in PassIdx :
          passes[k].status = PassRunning =>
              /\ \A j \in 1..(k - 1) : passes[j].status = PassCompleted
              /\ \A j \in (k + 1)..Len(passes) :
                    passes[j].status = PassPending
    /\ \A i, j \in EventIdx :
          (/\ i < j
           /\ emitted[i].type = EventPassStarted
           /\ emitted[j].type = EventPassStarted) =>
              emitted[i].pass < emitted[j].pass

\* C10 witness: the third of four passes is running after the PassStarted
\* events of the first two.
C10_Witness ==
    /\ Len(passes) = 4
    /\ passes[3].status = PassRunning
    /\ EventsOf(EventPassStarted, 1) # {}
    /\ EventsOf(EventPassStarted, 2) # {}
    /\ EventsOf(EventPassStarted, 3) # {}

-----------------------------------------------------------------------------
(* Claims on FindingsAggregator.Sort *)

\* The severity rank of the specification: critical < high < medium < low.
RankOf(sev) ==
    CASE sev = "critical" -> 0
      [] sev = "high" -> 1
      [] sev = "medium" -> 2
      [] sev = "low" -> 3

\* f may stand directly before g in the specified order.
InOrder(f, g) ==
    \/ RankOf(f.severity) < RankOf(g.severity)
    \/ /\ RankOf(f.severity) = RankOf(g.severity)
       /\ \/ StrLess(f.file, g.file)
          \/ f.file = g.file /\ f.lineStart <= g.lineStart

\* C11: after Sort the kept collection is a rearrangement of the collection
\* the call found, and is ordered by severity rank (critical, high, medium,
\* low), then file, then lineStart, each ascending.
C11_SortOrdersPermutation ==
    lastOp = "sort" =>
        /\ Len(aggFindings) = Len(preSort)
        /\ \E p \in Perms(Len(preSort)) :
              aggFindings = [i \in 1..Len(preSort) |-> preSort[p[i]]]
        /\ \A i \in 1..(Len(aggFindings) - 1) :
              InOrder(aggFindings[i], aggFindings[i + 1])

\* C11 witness: Sort has rearranged three kept findings of two severities,
\* two of them in one file with different start lines.
C11_Witness ==
    /\ lastOp = "sort"
    /\ Len(aggFindings) = 3
    /\ aggFindings # preSort
    /\ aggFindings[1].severity # aggFindings[3].severity
    /\ \E i \in 1..2 :
          /\ aggFindings[i].severity = aggFindings[i + 1].severity
          /\ aggFindings[i].file = aggFindings[i + 1].file
          /\ aggFindings[i].lineStart < aggFindings[i + 1].lineStart

\* The key Sort orders by.
SortKey(f) == <<f.severity, f.file, f.lineStart>>

\* C12: Sort is stable and idempotent: after Sort, kept findings with equal
\* (severity, file, lineStart) stand in the order in which they were added,
\* and a Sort right after a Sort leaves the sequence as it is.
C12_SortIdempotentStable ==
    /\ [](lastOp = "sort" =>
            \A i, j \in 1..Len(aggFindings) :
                (i < j /\ SortKey(aggFindings[i]) = SortKey(aggFindings[j]))
                    => FirstAdded(Key(aggFindings[i]))
                         < FirstAdded(Key(aggFindings[j])))
    /\ [][(lastOp = "sort" /\ lastOp' = "sort") =>
             aggFindings' = aggFindings]_vars

-----------------------------------------------------------------------------
(* Claims on the counts and on GenerateReport *)

\* Whether the map counts holds, for each of the four severities, the
\* number of findings of fs with that severity.
FourBuckets(counts, fs) ==
    \A sev \in {"low", "medium", "high", "critical"} :
        /\ sev \in DOMAIN counts
        /\ counts[sev] =
             Cardinality({i \in 1..Len(fs) : fs[i].severity = sev})

\* C13: CountBySeverity of the aggregator, in every state and the empty one
\* too, and bySeverity of every generated report hold all four severities,
\* each with the number of kept findings of that severity.
C13_FourSeverityBuckets ==
    /\ FourBuckets(CountBySeverity(aggFindings), aggFindings)
    /\ report.generated =>
          FourBuckets(report.summary.bySeverity, report.findings)

\* C13 witness: a report generated from no findings.
C13_Witness ==
    /\ report.generated
    /\ reportIn.findings = <<>>
    /\ report.findings = <<>>
    /\ aggFindings = <<>>

\* C17: durationSeconds of a generated report is end minus start, in
\* seconds, and is not negative.
C17_DurationEndMinusStart ==
    report.generated =>
        /\ report.summary.durationSeconds
             = reportIn.endTime - reportIn.startTime
        /\ report.summary.durationSeconds >= 0

-----------------------------------------------------------------------------
(* Claims on ParseFindingsFromResponse *)

\* The severity whose name is s when case is ignored, medium when there is
\* none.
NameIgnoringCase(s) ==
    CASE s \in {"low", "LOW", "Low"} -> "low"
      [] s \in {"medium", "MEDIUM", "Medium", "MeDiUm"} -> "medium"
      [] s \in {"high", "HIGH", "High"} -> "high"
      [] s \in {"critical", "CRITICAL", "Critical"} -> "critical"
      [] OTHER -> "medium"

\* C14: a decoded element's severity string becomes the severity of that
\* name, case ignored, and medium when it names none (the empty string
\* too); every finding the parser returns has one of the four severities.
C14_SeverityDegradesToMedium ==
    parseIn.called =>
        LET decoded == Unmarshal(extractJSON(parseIn.response)) IN
        /\ decoded.hasArray =>
              /\ Len(parseOut) = Len(decoded.elems)
              /\ \A i \in 1..Len(decoded.elems) :
                    parseOut[i].severity
                        = NameIgnoringCase(decoded.elems[i].severity)
        /\ \A i \in 1..Len(parseOut) :
              parseOut[i].severity \in {"low", "medium", "high", "critical"}

\* C14 witness: an element whose severity is written in capitals.
C14_Witness ==
    /\ parseIn.called
    /\ parseIn.response
         = <<LBracket, Obj(Raw(1, 2, "CRITICAL", "k", "m", "")), RBracket>>
    /\ Len(parseOut) = 1
    /\ parseOut[1].severity = "critical"

\* Whether the text holds no "[".
NoOpenBracket(text) == \A i \in 1..Len(text) : text[i] # LBracket

\* Whether the text holds a "[" and no "]" after the first one.
NoCloseAfterOpen(text) ==
    \E i \in 1..Len(text) :
        /\ text[i] = LBracket
        /\ \A j \in 1..(i - 1) : text[j] # LBracket
        /\ \A j \in (i + 1)..Len(text) : text[j] # RBracket

\* C15: the parser returns a sequence of findings of the file for every
\* text, and the empty one when the text has no "[", has no "]" after the
\* first "[", or when what was extracted does not decode.
C15_ParserNeverFails ==
    parseIn.called =>
        /\ DOMAIN parseOut = 1..Len(parseOut)
        /\ \A i \in 1..Len(parseOut) : parseOut[i].file = parseIn.filePath
        /\ \/ NoOpenBracket(parseIn.response)
           \/ NoCloseAfterOpen(parseIn.response)
           \/ ~Unmarshal(extractJSON(parseIn.response)).hasArray
           => parseOut = <<>>

\* C15 witness: a text with "[" and a later "]" whose extract does not
\* decode.
C15_Witness ==
    /\ parseIn.called
    /\ ~NoOpenBracket(parseIn.response)
    /\ ~NoCloseAfterOpen(parseIn.response)
    /\ extractJSON(parseIn.response) # <<>>
    /\ ~Unmarshal(extractJSON(parseIn.response)).hasArray
    /\ parseOut = <<>>

\* Whether the text holds a json fence and a fence after it.
HasFencedBlock(text) ==
    \E i, j \in 1..Len(text) :
        i < j /\ text[i] = FenceJSON /\ HasFence(text[j])

\* The content of the first fenced block of the text.
FencedContent(text) ==
    LET i == CHOOSE k \in 1..Len(text) :
                /\ text[k] = FenceJSON
                /\ \A l \in 1..(k - 1) : text[l] # FenceJSON
        j == CHOOSE k \in (i + 1)..Len(text) :
                /\ HasFence(text[k])
                /\ \A l \in (i + 1)..(k - 1) : ~HasFence(text[l])
    IN SubSeq(text, i + 1, j - 1)

\* The text from the first "[" to the last "]", empty when there is none.
BracketSpan(text) ==
    LET lefts == {i \in 1..Len(text) : text[i] = LBracket}
        rights == {i \in 1..Len(text) : text[i] = RBracket}
    IN IF lefts = {} \/ rights = {} THEN <<>>
       ELSE SubSeq(text, CHOOSE i \in lefts : \A j \in lefts : i <= j,
                         CHOOSE i \in rights : \A j \in rights : j <= i)

\* C16: when the fenced block decodes, its findings are returned; when it
\* is there and does not decode while the text from the first "[" to the
\* last "]" does, the findings of that text are returned.
C16_SecondStrategyAfterFence ==
    parseIn.called /\ HasFencedBlock(parseIn.response) =>
        LET fenced == Unmarshal(FencedContent(parseIn.response))
            span == Unmarshal(BracketSpan(parseIn.response))
        IN /\ fenced.hasArray =>
                parseOut = ConvertRaw(parseIn.filePath, fenced.elems)
           /\ ~fenced.hasArray /\ span.hasArray =>
                parseOut = ConvertRaw(parseIn.filePath, span.elems)

-----------------------------------------------------------------------------
(* Claims on Factory.CreateDefaultPipeline *)

\* The names of the passes of the orchestrator, in order.
PassNames == [i \in 1..Len(passes) |-> passes[i].name]

\* The names of the enabled passes of the configured pipeline, in order.
EnabledNames ==
    LET IsEnabled(passConfig) == passConfig.enabled
        enabled == SelectSeq(cfg.pipeline.passes, IsEnabled)
    IN [i \in 1..Len(enabled) |-> enabled[i].name]

\* C18: the orchestrator of the Factory holds the enabled passes of the
\* configured pipeline, in config order, when a pipeline with passes is
\* configured, and the default passes when none is; every pass is pending
\* until the run starts, and only these passes are ever started.
C18_FactoryAddsEnabledPasses ==
    cfg.called =>
        /\ IF ~cfg.pipeline.isNil /\ cfg.pipeline.passes # <<>>
           THEN /\ PassNames = EnabledNames
                /\ \A i \in 1..Len(cfg.pipeline.passes) :
                      ~cfg.pipeline.passes[i].enabled =>
                          \A j \in 1..Len(passes) :
                              passes[j].name # cfg.pipeline.passes[i].name
           ELSE /\ cfg.provider = "ollama" =>
                      PassNames = <<"lint", "refactor", "local-refinement",
                                    "summary">>
                /\ cfg.provider # "ollama" =>
                      PassNames = <<"lint", "refactor", "summary">>
        /\ pc = "idle" =>
              \A i \in 1..Len(passes) :
                  /\ passes[i].status = PassPending
                  /\ ~passes[i].startSet
                  /\ ~passes[i].endSet
        /\ \A i \in 1..Len(emitted) :
              emitted[i].pass # 0 => emitted[i].pass \in 1..Len(passes)

\* C18 witness: a run to its end of a pipeline configured with an enabled,
\* a disabled and an enabled pass.
C18_Witness ==
    /\ cfg.called
    /\ ~cfg.pipeline.isNil
    /\ Len(cfg.pipeline.passes) = 3
    /\ cfg.pipeline.passes[1].enabled
    /\ ~cfg.pipeline.passes[2].enabled
    /\ cfg.pipeline.passes[3].enabled
    /\ PassNames = <<cfg.pipeline.passes[1].name, cfg.pipeline.passes[3].name>>
    /\ pc = "done"
    /\ emitted # <<>>

-----------------------------------------------------------------------------
(* Claims on the main menu *)

\* C19: in the main menu the key q quits the application at once, whichever
\* option is selected: after q was pressed, tea.Quit has been returned.
C19_QuitKeyExitsAtOnce ==
    (keys # <<>> /\ keys[Len(keys)] = "q") => quit

-----------------------------------------------------------------------------
(* Claims on the FindingAdded events *)

\* The findings the FindingAdded events carry, in the order of the events.
AddedFindings ==
    LET IsFindingAdded(e) == e.type = "finding_added"
        added_events == SelectSeq(emitted, IsFindingAdded)
    IN [i \in 1..Len(added_events) |-> added_events[i].finding]

\* C20: the findings of the FindingAdded events are, in order, the collected
\* findings: all of them when Execute has returned and whenever no send of
\* a FindingAdded event is due, all but the last one while its send is due.
C20_OneFindingAddedPerFinding ==
    /\ pc = "done" => AddedFindings = findings
    /\ pc # "sendFinding" => AddedFindings = findings
    /\ pc = "sendFinding" =>
          /\ findings # <<>>
          /\ AddedFindings = SubSeq(findings, 1, Len(findings) - 1)

\* C20 witness: a run that ended with findings of two passes on one file.
C20_Witness ==
    /\ pc = "done"
    /\ ret = "nil"
    /\ Len(findings) >= 2
    /\ \E i, j \in 1..Len(findings) :
          /\ findings[i].pass # findings[j].pass
          /\ Key(findings[i]) = Key(findings[j])
    /\ Len(AddedFindings) = Len(findings)

-----------------------------------------------------------------------------
(* Claims on the pass and file fields of the findings *)

\* The findings of the outcome o as the orchestrator collects them: the
\* parsed findings, each with the name of the outcome's pass.
StampedOf(o) ==
    [j \in 1..Len(o.parsed) |->
        [o.parsed[j] EXCEPT !.pass = passes[o.pass].name]]

RECURSIVE FlattenCompleted(_)
\* The findings of the outcomes os of completed passes, in order.
FlattenCompleted(os) ==
    IF os = <<>> THEN <<>>
    ELSE (IF passes[Head(os).pass].status = PassCompleted
          THEN StampedOf(Head(os)) ELSE <<>>)
            \o FlattenCompleted(Tail(os))

\* Whether the finding f is a finding of some file's response, with the
\* path of that file and the name of the pass that was running.
ProducedByRun(f) ==
    \E k \in OutcomeIdx :
        /\ outcomes[k].result = "ok"
        /\ f.file = files[outcomes[k].file]
        /\ f.pass = passes[outcomes[k].pass].name
        /\ \E j \in 1..Len(outcomes[k].parsed) :
              outcomes[k].parsed[j] = [f EXCEPT !.pass = ""]

\* C21: the parser leaves pass empty and sets file to the path it was
\* given; every collected finding and every finding of a FindingAdded
\* event has the path of its file and the name of the pass that ran when it
\* was produced; when Execute has returned the collected findings are the
\* parsed findings of the completed passes, so stamped, in order.
C21_PassAndFileStamped ==
    /\ \A k \in OutcomeIdx : \A j \in 1..Len(outcomes[k].parsed) :
          /\ outcomes[k].parsed[j].pass = ""
          /\ outcomes[k].parsed[j].file = files[outcomes[k].file]
    /\ \A i \in 1..Len(findings) : ProducedByRun(findings[i])
    /\ \A i \in EventIdx :
          emitted[i].type = "finding_added" =>
              ProducedByRun(emitted[i].finding)
    /\ (pc = "findings" /\ emitted # <<>>
           /\ emitted[Len(emitted)].type = "finding_added") =>
          emitted[Len(emitted)].finding.pass = passes[pi].name
    /\ pc = "done" => findings = FlattenCompleted(outcomes)

\* C21 witness: a run that ended with findings of two passes and two
\* files.
C21_Witness ==
    /\ pc = "done"
    /\ \E i, j \in 1..Len(findings) :
          /\ findings[i].pass # findings[j].pass
          /\ findings[i].file = findings[j].file
    /\ \E i, j \in 1..Len(findings) :
          /\ findings[i].pass = findings[j].pass
          /\ findings[i].file # findings[j].file
    /\ \E i \in EventIdx : emitted[i].type = "finding_added"

-----------------------------------------------------------------------------
(* Claims on Pass.Error *)

\* C22: in every state a pass whose error is not empty is failed; a
\* pending, a running and a completed pass have the empty error.
C22_ErrorOnlyWhenFailed ==
    \A p \in PassIdx :
        /\ passes[p].error # "" => passes[p].status = "failed"
        /\ passes[p].status \in {"pending", "running", "completed"} =>
              passes[p].error = ""

\* C22 witness: a completed pass without error, then a failed pass with
\* its error.
C22_Witness ==
    /\ Len(passes) >= 2
    /\ passes[1].status = "completed"
    /\ passes[1].error = ""
    /\ passes[2].status = "failed"
    /\ passes[2].error # ""

-----------------------------------------------------------------------------
(* Claims on the de-duplication of FindingsAggregator.Add *)

\* The five-tuples of the findings of fs.
KeySet(fs) == {Key(fs[i]) : i \in 1..Len(fs)}

\* C23: the findings added so far, added to a new aggregator in any other
\* order, leave as many kept findings and the same set of kept five-tuples
\* as the aggregator holds.
C23_DedupOrderIndependent ==
    \A q \in Perms(Len(added)) :
        LET other == AddMultipleTo(<<>>, {},
                                   [i \in 1..Len(added) |-> added[q[i]]])
        IN /\ Len(other.findings) = Len(aggFindings)
           /\ KeySet(other.findings) = KeySet(aggFindings)

\* C27: Add drops a finding only when a finding with the same five values
\* was added before: every five-tuple that was added is kept, and the
\* aggregator keeps one finding per distinct five-tuple, also for strings
\* that contain ':'.
C27_NoFalseDuplicates ==
    /\ KeySet(added) = KeySet(aggFindings)
    /\ Len(aggFindings) = Cardinality(KeySet(added))

-----------------------------------------------------------------------------
(* Claims on the PassProgress events *)

\* The messages of the PassProgress events of pass p, in order.
ProgressOf(p) ==
    LET IsProgress(e) == e.type = "pass_progress" /\ e.pass = p
        progress == SelectSeq(emitted, IsProgress)
    IN [i \in 1..Len(progress) |-> progress[i].message]

\* C24: the PassProgress events of a pass name the files of the list, each
\* once and in the order of the list, all of them once the pass is
\* completed; a file whose prompt build or request failed has no
\* FindingAdded event, and there is no PassFailed event and no error
\* returned.
C24_OneProgressPerFile ==
    /\ \A p \in PassIdx :
          /\ Len(ProgressOf(p)) <= Len(files)
          /\ \A f \in 1..Len(ProgressOf(p)) :
                ProgressOf(p)[f] = "Analyzing " \o files[f]
          /\ passes[p].status = "completed" =>
                Len(ProgressOf(p)) = Len(files)
          /\ passes[p].status = "pending" => ProgressOf(p) = <<>>
    /\ \A k \in OutcomeIdx :
          outcomes[k].result # "ok" =>
              \A i \in EventIdx :
                  emitted[i].type = "finding_added" =>
                      ~ /\ emitted[i].finding.file = files[outcomes[k].file]
                        /\ emitted[i].finding.pass
                             = passes[outcomes[k].pass].name
    /\ \A i \in EventIdx : emitted[i].type # "pass_failed"
    /\ ret # "error"

\* C24 witness: a finished run of two passes over two files, with a failed
\* prompt build, a failed request and a response with findings.
C24_Witness ==
    /\ pc = "done"
    /\ Len(passes) = 2
    /\ Len(files) = 2
    /\ Len(ProgressOf(1)) = 2
    /\ Len(ProgressOf(2)) = 2
    /\ \E k \in OutcomeIdx : outcomes[k].result = "build_error"
    /\ \E k \in OutcomeIdx : outcomes[k].result = "request_error"
    /\ findings # <<>>

-----------------------------------------------------------------------------
(* Claims on the event channel and its consumer *)

\* Whether Execute waits at a send: a send is due and the channel is full.
Blocked ==
    /\ ~closed
    /\ Len(events) = ChanCap
    /\ \/ pc \in {"sendStarted", "sendFinding", "sendCompleted", "sendFailed"}
       \/ pc = "files" /\ fi <= Len(files)

\* C25: the consumer has taken, in the order of their emission and each
\* once, the events that are no longer in the channel; and once Execute is
\* invoked it returns, the stream is closed and the consumer has every
\* emitted event, provided the requests return and the consumer keeps
\* taking events.
C25_ExecuteTerminatesWhenDrained ==
    /\ [](received \o events = emitted)
    /\ [](Len(events) <= ChanCap)
    /\ (calls = 1) ~>
          (pc = "done" /\ ret = "nil" /\ closed /\ events = <<>>
             /\ received = emitted)

\* C25 witness: a run of more events than the channel holds has returned
\* and the consumer has them all.
C25_Witness ==
    /\ pc = "done"
    /\ closed
    /\ Len(emitted) > ChanCap
    /\ received = emitted
    /\ findings # <<>>

\* C26 as stated: nobody takes the events; the channel holds at most 100
\* events; Execute returns and closes the stream when the run has at most
\* 100 events and waits at the 101st otherwise, for good, not returned,
\* the stream open and the current pass running.
C26_BlocksAtEvent101Running ==
    /\ [](Len(events) <= ChanCap)
    /\ [](pc = "done" => closed /\ Len(emitted) <= ChanCap)
    /\ [](Blocked =>
            /\ Len(emitted) = ChanCap
            /\ ret = "none"
            /\ passes[pi].status = "running")
    /\ [](Blocked => []Blocked)
    /\ (calls = 1) ~> (pc = "done" \/ Blocked)

\* C26 amended: as stated, but the current pass is running, or completed
\* when the send Execute waits at is that of its PassCompleted event.
C26_BlocksAtEvent101 ==
    /\ [](Len(events) <= ChanCap)
    /\ [](pc = "done" => closed /\ Len(emitted) <= ChanCap)
    /\ [](Blocked =>
            /\ Len(emitted) = ChanCap
            /\ ret = "none"
            /\ pc # "sendCompleted" => passes[pi].status = "running"
            /\ pc = "sendCompleted" => passes[pi].status = "completed")
    /\ [](Blocked => []Blocked)
    /\ (calls = 1) ~> (pc = "done" \/ Blocked)

\* C26 witness: Execute waits at the send of a PassCompleted event, the
\* 101st of the run.
C26_Witness ==
    /\ Blocked
    /\ pc = "sendCompleted"
    /\ Len(emitted) = ChanCap
    /\ passes[pi].status = "completed"

-----------------------------------------------------------------------------
(* Claims on RootModel *)

\* C28: whatever the order of the key presses and of the messages of the
\* commands, Execute is started at most once on the orchestrator and at
\* most one read of the event stream is pending.
C28_ExecuteStartedOnce ==
    /\ rt.executes <= 1
    /\ rt.readers <= 1

-----------------------------------------------------------------------------
(* Claims on ModelSelectModel *)

\* C29: a provider and model written to the project config belong
\* together: the model is one of the models of that provider.
C29_SavedModelOfSavedProvider ==
    mst.projectModel.model # "" =>
        \E i \in 1..Len(ModelsOf(mst.projectModel.provider)) :
            ModelsOf(mst.projectModel.provider)[i] = mst.projectModel.model

-----------------------------------------------------------------------------
(* Claims on the consistency of the report *)

RECURSIVE SumOver(_, _)
\* The sum of the counts of the keys S of the map counts.
SumOver(counts, S) ==
    IF S = {} THEN 0
    ELSE LET k == CHOOSE x \in S : TRUE
         IN counts[k] + SumOver(counts, S \ {k})

\* The fingerprints of the findings of fs.
Fingerprints(fs) == {hashFinding(fs[i]) : i \in 1..Len(fs)}

\* C30: in a generated report findingCount is the length of the findings
\* list, the sum of the bySeverity counts and the sum of the byKind counts;
\* the list is in the Sort order and holds one finding per fingerprint of
\* the input, each a finding of the input, so no more than the input; and
\* the input list is as it was given.
C30_ReportConsistent ==
    report.generated =>
        /\ report.summary.findingCount = Len(report.findings)
        /\ report.summary.findingCount
             = SumOver(report.summary.bySeverity,
                       DOMAIN report.summary.bySeverity)
        /\ report.summary.findingCount
             = SumOver(report.summary.byKind, DOMAIN report.summary.byKind)
        /\ \A i \in 1..(Len(report.findings) - 1) :
              InOrder(report.findings[i], report.findings[i + 1])
        /\ Fingerprints(report.findings) = Fingerprints(reportIn.findings)
        /\ Len(report.findings) = Cardinality(Fingerprints(reportIn.findings))
        /\ \A i \in 1..Len(report.findings) :
              \E j \in 1..Len(reportIn.findings) :
                  report.findings[i] = reportIn.findings[j]
        /\ report.summary.findingCount <= Len(reportIn.findings)
        /\ added = reportIn.findings

\* C30 witness: a report of three findings of which two have one
\* fingerprint, given out of the Sort order.
C30_Witness ==
    /\ report.generated
    /\ Len(reportIn.findings) = 3
    /\ Len(report.findings) = 2
    /\ report.findings # SubSeq(reportIn.findings, 1, 2)
    /\ report.findings # SubSeq(reportIn.findings, 2, 3)
    /\ report.summary.findingCount = 2

====
